---- MODULE Spec2Model ----
(***************************************************************************)
(* Smart Indexer Pro: the URL queue of App (items, isProcessing,           *)
(* serviceAccount), the selection of UrlList (selectedIds) and the two     *)
(* asynchronous operations runGeminiAnalysis and submitToGoogle.           *)
(*                                                                         *)
(* One action is one run of a handler up to its next await: a click        *)
(* handler runs to its first await, an awaited call that resolves or       *)
(* rejects runs the continuation to the next await or to the return.       *)
(* setItems(prev => ...) updaters are applied to the current items, the    *)
(* values a handler closed over (itemsToProcess, processingIds) are kept   *)
(* in the record of the operation in flight.                               *)
(***************************************************************************)
EXTENDS Integers, Sequences, FiniteSets, Bags, TLC

\* Bounds of the model.
MaxItems == 2        \* the add button is modelled only while the queue is shorter
MaxAnalyses == 1     \* runGeminiAnalysis calls suspended at their await at the same time
MaxSubmissions == 1  \* submitToGoogle calls suspended at an await at the same time
MaxEntries == 2      \* entries of one analysis response
StoreMaxItems == 3   \* StoreSpec: length of the queue a store call is applied to
StoreMaxAdd == 2     \* StoreSpec: urls of one addUrls call

\* Math.random().toString(36).substring(7) draws from a finite set of strings
\* and nothing checks the draw against the ids in the queue.
Ids == {"a", "b"}
Urls == {"u1", "u2"}

\* IndexingStatus
PENDING == "PENDING"
ANALYZING == "ANALYZING"
READY == "READY"
SUBMITTING == "SUBMITTING"
SUCCESS == "SUCCESS"
FAILED == "FAILED"
IndexingStatus == {PENDING, ANALYZING, READY, SUBMITTING, SUCCESS, FAILED}

\* An optional field is <<>> (undefined) or <<v>>.
Undefined == <<>>
Some(v) == <<v>>

\* AnalysisResponse.items[*]: the entries the analysis service may answer with,
\* one verdict per URL.
Entries ==
  { [url |-> "u1", qualityLabel |-> "HIGH", qualityScore |-> 90, reasoning |-> "clean path"],
    [url |-> "u2", qualityLabel |-> "LOW", qualityScore |-> 20, reasoning |-> "query params"] }

SeqsUpTo(S, n) == UNION { [1..k -> S] : k \in 0..n }

Responses == SeqsUpTo(Entries, MaxEntries)

\* The alert() texts.
NoAlert == "none"
AnalysisFailedAlert == "Failed to analyze URLs with Gemini. Check your API Key."
MissingKeyAlert == "Please upload a Service Account Key first."
SubmissionCompleteAlert == "Submission complete!"
SubmitErrorNote == "API Error: Failed to connect to indexing.googleapis.com (Simulated)"

VARIABLES
  items,           \* App: useState<UrlItem[]>([])
  isProcessing,    \* App: useState(false)
  serviceAccount,  \* App: useState<ServiceAccountKey | null>(null); TRUE = a key is set
  selectedIds,     \* UrlList: useState<Set<string>>(new Set())
  ops,             \* the runGeminiAnalysis / submitToGoogle calls suspended at an await
  alert,           \* the alert() the last step raised, NoAlert if none
  analysisResult,  \* the analysisResult the last step received from analyzeUrls, if it did
  call,            \* StoreSpec: the queue-store call the last step made, with its
                   \* arguments and the queue it was applied to; Spec leaves it Undefined
  inputMode,       \* UrlList: useState<'paste' | 'scan'>('paste')
  scanContent,     \* UrlList: useState(''), the text to extract from, as a sequence of Tokens
  scanFilter,      \* UrlList: useState(''), the keyword filter, as a sequence of FilterTokens
  scanStatus,      \* UrlList: useState<string | null>(null); Some(n) = "Extracted n URLs."
  error,           \* ServiceAccountUpload: useState<string | null>(null)
  fileName,        \* ServiceAccountUpload: useState<string | null>(null)
  reading          \* ServiceAccountUpload: the files a FileReader is reading (a bag)

scanner == <<inputMode, scanContent, scanFilter, scanStatus>>

upload == <<error, fileName, reading>>

vars == <<items, isProcessing, serviceAccount, selectedIds, ops, alert, analysisResult, call,
          scanner, upload>>

\* the scanner and the upload box as they are constructed
ScannerIdle ==
  /\ inputMode = "paste"
  /\ scanContent = <<>>
  /\ scanFilter = <<>>
  /\ scanStatus = Undefined

UploadIdle ==
  /\ error = Undefined
  /\ fileName = Undefined
  /\ reading = EmptyBag

----------------------------------------------------------------------------
\* Helpers

IdsOf(s) == { s[i].id : i \in DOMAIN s }

\* ops is a bag: the suspended calls, with no order among them
InFlight(kind) ==
  LET S == { o \in BagToSet(ops) : o.kind = kind }
  IN  BagCardinality([ o \in S |-> CopiesIn(o, ops) ])

Suspend(op) == ops (+) SetToBag({op})
Resume(op) == ops (-) SetToBag({op})

----------------------------------------------------------------------------
\* Queue store (App)

NewItem(id, url) ==
  [id |-> id, url |-> url, status |-> PENDING, requestType |-> "URL_UPDATED",
   qualityScore |-> Undefined, qualityLabel |-> Undefined, analysis |-> Undefined]

\* addUrls as it would be if it skipped the urls already in the queue
addUrlsDedup(prev, urls, newIds) ==
  prev \o SelectSeq([ i \in 1..Len(urls) |-> NewItem(newIds[i], urls[i]) ],
                    LAMBDA n : \A k \in DOMAIN prev : prev[k].url # n.url)

\* addUrls: setItems(prev => [...prev, ...newItems])
addUrls(prev, urls, newIds) ==
  prev \o [ i \in 1..Len(urls) |-> NewItem(newIds[i], urls[i]) ]

\* deleteUrl as it would be with prev.splice(prev.findIndex(i => i.id === id), 1):
\* the first match goes, and with no match (index -1) the last item
deleteUrlSplice(prev, id) ==
  LET hits == { i \in DOMAIN prev : prev[i].id = id }
      at == IF hits = {} THEN Len(prev)
                         ELSE CHOOSE i \in hits : \A j \in hits : i <= j
  IN  [ i \in 1..(IF Len(prev) = 0 THEN 0 ELSE Len(prev) - 1) |->
          IF i < at THEN prev[i] ELSE prev[i + 1] ]

\* deleteUrl: prev.filter(i => i.id !== id)
deleteUrl(prev, id) == SelectSeq(prev, LAMBDA i : i.id # id)

\* deleteBatch: prev.filter(i => !ids.includes(i.id))
deleteBatch(prev, ids) == SelectSeq(prev, LAMBDA i : i.id \notin ids)

\* clearFailedUrls as it would be with the test inverted
clearFailedUrlsInverted(prev) == SelectSeq(prev, LAMBDA i : i.status = FAILED)

\* clearFailedUrls: prev.filter(i => i.status !== FAILED)
clearFailedUrls(prev) == SelectSeq(prev, LAMBDA i : i.status # FAILED)

----------------------------------------------------------------------------
\* Analysis orchestrator (App.runGeminiAnalysis)

\* itemsToProcess as it would be if the batch kept PENDING items only
analysisTargetsPendingOnly(prev, isBatch, targetIds) ==
  IF isBatch
    THEN SelectSeq(prev, LAMBDA i : i.id \in targetIds /\ i.status = PENDING)
    ELSE SelectSeq(prev, LAMBDA i : i.status = PENDING)

\* itemsToProcess of runGeminiAnalysis
analysisTargets(prev, isBatch, targetIds) ==
  IF isBatch
    THEN SelectSeq(prev, LAMBDA i : i.id \in targetIds)
    ELSE SelectSeq(prev, LAMBDA i : i.status = PENDING)

\* prev.map(item => processingIds.has(item.id) ? {...item, status: ANALYZING} : item)
markAnalyzing(prev, processingIds) ==
  [ i \in DOMAIN prev |->
      IF prev[i].id \in processingIds
        THEN [prev[i] EXCEPT !.status = ANALYZING]
        ELSE prev[i] ]

\* find as it would be if it took the first entry without comparing urls
findFirstEntry(resp, url) ==
  IF Len(resp) = 0 THEN Undefined ELSE Some(resp[1])

\* analysisResult.items.find(r => r.url === item.url): the first match, if any
find(resp, url) ==
  LET hits == SelectSeq(resp, LAMBDA r : r.url = url)
  IN  IF Len(hits) = 0 THEN Undefined ELSE Some(hits[1])

\* the success path as it would be if an item without an entry were sent back
\* to PENDING
applyAnalysisRevertUnmatched(prev, processingIds, resp) ==
  [ i \in DOMAIN prev |->
      IF prev[i].id \notin processingIds
        THEN prev[i]
        ELSE LET result == find(resp, prev[i].url)
             IN  IF result # Undefined
                   THEN [prev[i] EXCEPT
                           !.status = READY,
                           !.qualityLabel = Some(result[1].qualityLabel),
                           !.qualityScore = Some(result[1].qualityScore),
                           !.analysis = Some(result[1].reasoning)]
                   ELSE [prev[i] EXCEPT !.status = PENDING] ]

\* the success path as it would be if it matched every item by url, without
\* the processingIds test
applyAnalysisByUrl(prev, processingIds, resp) ==
  [ i \in DOMAIN prev |->
      LET result == find(resp, prev[i].url)
      IN  IF result # Undefined
            THEN [prev[i] EXCEPT
                    !.status = READY,
                    !.qualityLabel = Some(result[1].qualityLabel),
                    !.qualityScore = Some(result[1].qualityScore),
                    !.analysis = Some(result[1].reasoning)]
            ELSE prev[i] ]

\* the updater of the success path
applyAnalysis(prev, processingIds, resp) ==
  [ i \in DOMAIN prev |->
      IF prev[i].id \notin processingIds
        THEN prev[i]
        ELSE LET result == find(resp, prev[i].url)
             IN  IF result # Undefined
                   THEN [prev[i] EXCEPT
                           !.status = READY,
                           !.qualityLabel = Some(result[1].qualityLabel),
                           !.qualityScore = Some(result[1].qualityScore),
                           !.analysis = Some(result[1].reasoning)]
                   ELSE prev[i] ]

\* the catch path as it would be without `item.status === ANALYZING`
revertAnalysisAnyStatus(prev, processingIds) ==
  [ i \in DOMAIN prev |->
      IF prev[i].id \in processingIds
        THEN [prev[i] EXCEPT !.status = PENDING]
        ELSE prev[i] ]

\* the catch path as it would be without `processingIds.has(item.id)`
revertAnalysisAllItems(prev, processingIds) ==
  [ i \in DOMAIN prev |->
      IF prev[i].status = ANALYZING
        THEN [prev[i] EXCEPT !.status = PENDING]
        ELSE prev[i] ]

\* the updater of the catch path
revertAnalysis(prev, processingIds) ==
  [ i \in DOMAIN prev |->
      IF prev[i].id \in processingIds /\ prev[i].status = ANALYZING
        THEN [prev[i] EXCEPT !.status = PENDING]
        ELSE prev[i] ]

\* what the continuation of runGeminiAnalysis closes over: processingIds
AnalysisOp(processingIds) ==
  [kind |-> "analysis", isBatch |-> FALSE, ids |-> processingIds,
   targets |-> <<>>, idx |-> 0]

\* runGeminiAnalysis as it would be if setIsProcessing(true) came before the
\* test of itemsToProcess.length
runGeminiAnalysisFlagFirst(isBatch, targetIds) ==
  LET itemsToProcess == analysisTargets(items, isBatch, targetIds)
      processingIds == IdsOf(itemsToProcess)
  IN  IF Len(itemsToProcess) = 0
        THEN /\ isProcessing' = TRUE
             /\ UNCHANGED <<items, ops>>
             /\ alert' = NoAlert
             /\ analysisResult' = Undefined
        ELSE /\ InFlight("analysis") < MaxAnalyses
             /\ isProcessing' = TRUE
             /\ items' = markAnalyzing(items, processingIds)
             /\ ops' = Suspend(AnalysisOp(processingIds))
             /\ alert' = NoAlert
             /\ analysisResult' = Undefined

\* runGeminiAnalysis(targetIds) up to `await analyzeUrls(urlsToAnalyze)`
runGeminiAnalysis(isBatch, targetIds) ==
  LET itemsToProcess == analysisTargets(items, isBatch, targetIds)
      processingIds == IdsOf(itemsToProcess)
  IN  IF Len(itemsToProcess) = 0
        THEN /\ UNCHANGED <<items, isProcessing, ops>>
             /\ alert' = NoAlert
             /\ analysisResult' = Undefined
        ELSE /\ InFlight("analysis") < MaxAnalyses
             /\ isProcessing' = TRUE
             /\ items' = markAnalyzing(items, processingIds)
             /\ ops' = Suspend(AnalysisOp(processingIds))
             /\ alert' = NoAlert
             /\ analysisResult' = Undefined

\* analyzeUrls resolved with analysisResult: the rest of the try block, then finally
AnalysisResolved ==
  \E op \in BagToSet(ops) : \E resp \in Responses :
    /\ op.kind = "analysis"
    /\ items' = applyAnalysis(items, op.ids, resp)
    /\ isProcessing' = FALSE
    /\ ops' = Resume(op)
    /\ alert' = NoAlert
    /\ analysisResult' = Some(resp)
    /\ UNCHANGED <<serviceAccount, selectedIds, call, scanner, upload>>

\* the catch path as it would be without the finally block
AnalysisRejectedNoFinally ==
  \E op \in BagToSet(ops) :
    /\ op.kind = "analysis"
    /\ alert' = AnalysisFailedAlert
    /\ items' = revertAnalysis(items, op.ids)
    /\ ops' = Resume(op)
    /\ analysisResult' = Undefined
    /\ UNCHANGED <<isProcessing, serviceAccount, selectedIds, call, scanner, upload>>

\* analyzeUrls threw (no API key, request failed, no text): catch, then finally
AnalysisRejected ==
  \E op \in BagToSet(ops) :
    /\ op.kind = "analysis"
    /\ alert' = AnalysisFailedAlert
    /\ items' = revertAnalysis(items, op.ids)
    /\ isProcessing' = FALSE
    /\ ops' = Resume(op)
    /\ analysisResult' = Undefined
    /\ UNCHANGED <<serviceAccount, selectedIds, call, scanner, upload>>

----------------------------------------------------------------------------
\* Submission orchestrator (App.submitToGoogle)

\* itemsToProcess of submitToGoogle
submissionTargets(prev, isBatch, targetIds) ==
  IF isBatch
    THEN SelectSeq(prev, LAMBDA i : i.id \in targetIds)
    ELSE SelectSeq(prev, LAMBDA i : i.status = READY)

\* the marking as it would be without the processingIds test
markSubmittingAll(prev, processingIds) ==
  [ i \in DOMAIN prev |-> [prev[i] EXCEPT !.status = SUBMITTING] ]

\* prev.map(i => processingIds.has(i.id) ? {...i, status: SUBMITTING} : i)
markSubmitting(prev, processingIds) ==
  [ i \in DOMAIN prev |->
      IF prev[i].id \in processingIds
        THEN [prev[i] EXCEPT !.status = SUBMITTING]
        ELSE prev[i] ]

\* the updater inside the for loop as it would be if it rebuilt the item
\* without its score
commitSubmissionDropsScore(prev, id, isSuccess) ==
  [ i \in DOMAIN prev |->
      IF prev[i].id = id
        THEN [prev[i] EXCEPT
                !.status = IF isSuccess THEN SUCCESS ELSE FAILED,
                !.qualityScore = Undefined,
                !.analysis = IF isSuccess THEN prev[i].analysis
                                          ELSE Some(SubmitErrorNote)]
        ELSE prev[i] ]

\* the updater inside the for loop as it would be if it wrote the error
\* string whatever the outcome
commitSubmissionNoteAlways(prev, id, isSuccess) ==
  [ i \in DOMAIN prev |->
      IF prev[i].id = id
        THEN [prev[i] EXCEPT
                !.status = IF isSuccess THEN SUCCESS ELSE FAILED,
                !.analysis = Some(SubmitErrorNote)]
        ELSE prev[i] ]

\* the updater inside the for loop
commitSubmission(prev, id, isSuccess) ==
  [ i \in DOMAIN prev |->
      IF prev[i].id = id
        THEN [prev[i] EXCEPT
                !.status = IF isSuccess THEN SUCCESS ELSE FAILED,
                !.analysis = IF isSuccess THEN prev[i].analysis
                                          ELSE Some(SubmitErrorNote)]
        ELSE prev[i] ]

\* what the loop of submitToGoogle closes over: isBatch, itemsToProcess (their
\* ids are all the loop reads), and idx, the item the loop is at
SubmitOp(isBatch, itemsToProcess) ==
  [kind |-> "submit", isBatch |-> isBatch, ids |-> IdsOf(itemsToProcess),
   targets |-> [ i \in DOMAIN itemsToProcess |-> itemsToProcess[i].id ],
   idx |-> 1]

\* the branch as it would be if setIsProcessing(true) came before the check
submitWithoutKeyAfterFlag ==
  /\ alert' = MissingKeyAlert
  /\ analysisResult' = Undefined
  /\ isProcessing' = TRUE
  /\ UNCHANGED <<items, ops>>

\* the `if (!serviceAccount)` branch of submitToGoogle
submitWithoutKey ==
  /\ alert' = MissingKeyAlert
  /\ analysisResult' = Undefined
  /\ UNCHANGED <<items, isProcessing, ops>>

\* submitToGoogle(targetIds) up to the first `await simulateDelay(800)`
submitToGoogle(isBatch, targetIds) ==
  IF ~serviceAccount
    THEN submitWithoutKey
    ELSE LET itemsToProcess == submissionTargets(items, isBatch, targetIds)
         IN  IF Len(itemsToProcess) = 0
               THEN /\ UNCHANGED <<items, isProcessing, ops>>
                    /\ alert' = NoAlert
                    /\ analysisResult' = Undefined
               ELSE /\ InFlight("submit") < MaxSubmissions
                    /\ isProcessing' = TRUE
                    /\ items' = markSubmitting(items, IdsOf(itemsToProcess))
                    /\ ops' = Suspend(SubmitOp(isBatch, itemsToProcess))
                    /\ alert' = NoAlert
                    /\ analysisResult' = Undefined

\* the loop as it would be if a failed item ended it
loopStopsOnFailure(op, isSuccess) == isSuccess /\ op.idx < Len(op.targets)

\* does the for loop go on after the item at idx
loopContinues(op, isSuccess) == op.idx < Len(op.targets)

\* simulateDelay resolved for the item at idx: isSuccess is drawn, the item is
\* committed, and the loop goes to the next await or, after the last item,
\* to setIsProcessing(false) and the alert of the global action
SubmitStep ==
  \E op \in BagToSet(ops) : \E isSuccess \in BOOLEAN :
    /\ op.kind = "submit"
    /\ items' = commitSubmission(items, op.targets[op.idx], isSuccess)
    /\ IF loopContinues(op, isSuccess)
         THEN /\ ops' = Resume(op) (+) SetToBag({[op EXCEPT !.idx = op.idx + 1]})
              /\ UNCHANGED isProcessing
              /\ alert' = NoAlert
         ELSE /\ ops' = Resume(op)
              /\ isProcessing' = FALSE
              /\ alert' = IF op.isBatch THEN NoAlert ELSE SubmissionCompleteAlert
    /\ analysisResult' = Undefined
    /\ UNCHANGED <<serviceAccount, selectedIds, call, scanner, upload>>

----------------------------------------------------------------------------
\* User actions (the buttons of App and UrlList, enabled as rendered)

\* handleAdd / handleScanExtract -> onAdd(urls); each id is a Math.random draw
AddUrls ==
  \E k \in 1..(MaxItems - Len(items)) :
    \E urls \in [1..k -> Urls] : \E newIds \in [1..k -> Ids] :
      /\ items' = addUrls(items, urls, newIds)
      /\ alert' = NoAlert
      /\ analysisResult' = Undefined
      /\ UNCHANGED <<isProcessing, serviceAccount, selectedIds, ops, call, scanner, upload>>

\* the trash button of a row: onDelete(item.id)
DeleteRow ==
  \E i \in DOMAIN items :
    /\ items' = deleteUrl(items, items[i].id)
    /\ alert' = NoAlert
    /\ analysisResult' = Undefined
    /\ UNCHANGED <<isProcessing, serviceAccount, selectedIds, ops, call, scanner, upload>>

\* "Clear Failed": rendered in the default header (nothing selected) when
\* hasFailedItems
ClearFailed ==
  /\ Cardinality(selectedIds) = 0
  /\ \E i \in DOMAIN items : items[i].status = FAILED
  /\ items' = clearFailedUrls(items)
  /\ alert' = NoAlert
  /\ analysisResult' = Undefined
  /\ UNCHANGED <<isProcessing, serviceAccount, selectedIds, ops, call, scanner, upload>>

\* handleSelect(id): the checkbox of a row
handleSelect(sel, id) == IF id \in sel THEN sel \ {id} ELSE sel \cup {id}

ToggleSelect ==
  \E i \in DOMAIN items :
    /\ selectedIds' = handleSelect(selectedIds, items[i].id)
    /\ alert' = NoAlert
    /\ analysisResult' = Undefined
    /\ UNCHANGED <<items, isProcessing, serviceAccount, ops, call, scanner, upload>>

\* handleSelectAll: the checkbox of the table header (rendered when items.length > 0)
handleSelectAll(sel, prev) ==
  IF Cardinality(sel) = Len(prev) /\ Len(prev) > 0 THEN {} ELSE IdsOf(prev)

SelectAll ==
  /\ Len(items) > 0
  /\ selectedIds' = handleSelectAll(selectedIds, items)
  /\ alert' = NoAlert
  /\ analysisResult' = Undefined
  /\ UNCHANGED <<items, isProcessing, serviceAccount, ops, call, scanner, upload>>

\* the X button of the batch header: setSelectedIds(new Set())
ClearSelection ==
  /\ Cardinality(selectedIds) > 0
  /\ selectedIds' = {}
  /\ alert' = NoAlert
  /\ analysisResult' = Undefined
  /\ UNCHANGED <<items, isProcessing, serviceAccount, ops, call, scanner, upload>>

\* executeBatchAction(onDeleteBatch)
BatchDelete ==
  /\ Cardinality(selectedIds) > 0
  /\ items' = deleteBatch(items, selectedIds)
  /\ selectedIds' = {}
  /\ alert' = NoAlert
  /\ analysisResult' = Undefined
  /\ UNCHANGED <<isProcessing, serviceAccount, ops, call, scanner, upload>>

\* executeBatchAction(onAnalyzeBatch): the batch header is rendered whenever
\* something is selected, whatever isProcessing is
BatchAnalyze ==
  /\ Cardinality(selectedIds) > 0
  /\ runGeminiAnalysis(TRUE, selectedIds)
  /\ selectedIds' = {}
  /\ UNCHANGED <<serviceAccount, call, scanner, upload>>

\* executeBatchAction(onSubmitBatch)
BatchSubmit ==
  /\ Cardinality(selectedIds) > 0
  /\ submitToGoogle(TRUE, selectedIds)
  /\ selectedIds' = {}
  /\ UNCHANGED <<serviceAccount, call, scanner, upload>>

\* "AI Analyze All Pending": disabled={isProcessing || no PENDING item}
GlobalAnalyze ==
  /\ ~isProcessing
  /\ \E i \in DOMAIN items : items[i].status = PENDING
  /\ runGeminiAnalysis(FALSE, {})
  /\ UNCHANGED <<serviceAccount, selectedIds, call, scanner, upload>>

\* "Submit Ready": disabled={isProcessing || !serviceAccount || no READY item}
GlobalSubmit ==
  /\ ~isProcessing
  /\ serviceAccount
  /\ \E i \in DOMAIN items : items[i].status = READY
  /\ submitToGoogle(FALSE, {})
  /\ UNCHANGED <<serviceAccount, selectedIds, call, scanner, upload>>

\* ServiceAccountUpload: onUpload={setServiceAccount} with a key that passed the checks
UploadKey ==
  /\ serviceAccount' = TRUE
  /\ alert' = NoAlert
  /\ analysisResult' = Undefined
  /\ UNCHANGED <<items, isProcessing, selectedIds, ops, call, scanner, upload>>

----------------------------------------------------------------------------

Init ==
  /\ items = <<>>
  /\ isProcessing = FALSE
  /\ serviceAccount = FALSE
  /\ selectedIds = {}
  /\ ops = EmptyBag
  /\ alert = NoAlert
  /\ analysisResult = Undefined
  /\ call = Undefined
  /\ ScannerIdle
  /\ UploadIdle

Next ==
  \/ AddUrls
  \/ DeleteRow
  \/ ClearFailed
  \/ ToggleSelect
  \/ SelectAll
  \/ ClearSelection
  \/ BatchDelete
  \/ BatchAnalyze
  \/ BatchSubmit
  \/ GlobalAnalyze
  \/ GlobalSubmit
  \/ UploadKey
  \/ AnalysisResolved
  \/ AnalysisRejected
  \/ SubmitStep

Spec == Init /\ [][Next]_vars

\* The list is kept to LiveMaxItems rows where termination is checked.
LiveMaxItems == 1

LiveAddUrls == AddUrls /\ Len(items') <= LiveMaxItems

LiveNext ==
  \/ LiveAddUrls
  \/ DeleteRow
  \/ ClearFailed
  \/ ToggleSelect
  \/ SelectAll
  \/ ClearSelection
  \/ BatchDelete
  \/ BatchAnalyze
  \/ BatchSubmit
  \/ GlobalAnalyze
  \/ GlobalSubmit
  \/ UploadKey
  \/ AnalysisResolved
  \/ AnalysisRejected
  \/ SubmitStep

\* Spec with the scheduling the claims about termination assume: a pending
\* analyzeUrls call is eventually resolved or rejected, and the timer of
\* simulateDelay eventually fires.
LiveSpec ==
  /\ Init
  /\ [][LiveNext]_vars
  /\ WF_vars(AnalysisResolved \/ AnalysisRejected)
  /\ WF_vars(SubmitStep)

----------------------------------------------------------------------------
\* The queue store on its own: addUrls, deleteUrl, deleteBatch and
\* clearFailedUrls applied to queues of up to StoreMaxItems items, with the
\* call recorded in `call`. A behaviour is one call applied to a drawn queue:
\* every queue a call could leave is itself among the queues drawn.

StoreIds == {"a", "b", "c", "d"}

\* the items of the queues drawn: a new item, an analysed item and an item
\* whose submission failed before any analysis
StoreItems ==
  UNION { { NewItem(id, "u1"),
            [NewItem(id, "u2") EXCEPT
               !.status = READY, !.qualityScore = Some(20),
               !.qualityLabel = Some("LOW"), !.analysis = Some("query params")],
            [NewItem(id, "u1") EXCEPT
               !.status = FAILED, !.analysis = Some(SubmitErrorNote)] }
          : id \in StoreIds }

StoreCall(fn, urls, newIds, ids) ==
  Some([fn |-> fn, prev |-> items, urls |-> urls, newIds |-> newIds, ids |-> ids])

StoreFrame ==
  /\ call = Undefined
  /\ UNCHANGED <<isProcessing, serviceAccount, selectedIds, ops, alert, analysisResult,
               scanner, upload>>

AddUrlsCall ==
  \E k \in 1..StoreMaxAdd :
    /\ StoreFrame
    /\ Len(items) + k <= StoreMaxItems
    /\ \E urls \in [1..k -> Urls] : \E newIds \in [1..k -> StoreIds] :
         /\ items' = addUrls(items, urls, newIds)
         /\ call' = StoreCall("addUrls", urls, newIds, {})

DeleteUrlCall ==
  \E id \in StoreIds :
    /\ StoreFrame
    /\ items' = deleteUrl(items, id)
    /\ call' = StoreCall("deleteUrl", <<>>, <<>>, {id})

DeleteBatchCall ==
  \E ids \in SUBSET StoreIds :
    /\ StoreFrame
    /\ items' = deleteBatch(items, ids)
    /\ call' = StoreCall("deleteBatch", <<>>, <<>>, ids)

ClearFailedUrlsCall ==
  /\ StoreFrame
  /\ items' = clearFailedUrls(items)
  /\ call' = StoreCall("clearFailedUrls", <<>>, <<>>, {})

StoreInit ==
  /\ items \in SeqsUpTo(StoreItems, StoreMaxItems)
  /\ isProcessing = FALSE
  /\ serviceAccount = FALSE
  /\ selectedIds = {}
  /\ ops = EmptyBag
  /\ alert = NoAlert
  /\ analysisResult = Undefined
  /\ call = Undefined
  /\ ScannerIdle
  /\ UploadIdle

StoreNext ==
  \/ AddUrlsCall
  \/ DeleteUrlCall
  \/ DeleteBatchCall
  \/ ClearFailedUrlsCall

StoreSpec == StoreInit /\ [][StoreNext]_vars

----------------------------------------------------------------------------
\* The URL extractor of the scanner tab (UrlList.handleScanExtract)
\*
\* A text is a sequence of tokens. Each token stands for the characters in its
\* name and no regular expression of the extractor can match across the seam
\* of two tokens other than as written below; the keywords of the filter are
\* made of letters that occur in no other token.

MaxPieces == 2   \* pieces a drawn text is put together from
MaxBody == 2     \* tokens between the delimiters of a well-formed piece
MaxFilter == 2   \* tokens of a drawn filter string

LOC == "<loc>"
LOCEND == "</loc>"
HREF == "href="
QUOTE == "'"
SCHEME == "http://"
SPACE == " "
NEWLINE == "\n"
COMMA == ","

Letters == {"a", "B"}
Whitespace == {SPACE, NEWLINE}
Tokens == {LOC, LOCEND, HREF, QUOTE, SCHEME} \cup Whitespace \cup Letters
FilterTokens == {COMMA, SPACE} \cup Letters

\* least index j >= i of s with s[j] in S, 0 if there is none
FirstAt(s, i, S) ==
  LET js == { j \in i..Len(s) : s[j] \in S }
  IN  IF js = {} THEN 0 ELSE CHOOSE j \in js : \A k \in js : j <= k

\* scanContent.matchAll(/<loc>(.*?)<\/loc>/g), m[1] of each match from i on:
\* the lazy group ends at the first </loc>, and . does not match a newline
RECURSIVE locMatches(_, _)
locMatches(text, i) ==
  IF i > Len(text) THEN <<>>
  ELSE LET j == FirstAt(text, i + 1, {LOCEND})
       IN  IF /\ text[i] = LOC
              /\ j # 0
              /\ \A k \in (i + 1)..(j - 1) : text[k] # NEWLINE
           THEN <<SubSeq(text, i + 1, j - 1)>> \o locMatches(text, j + 1)
           ELSE locMatches(text, i + 1)

\* scanContent.matchAll(/href=["'](https?:\/\/[^"']+)["']/g), m[1] of each
\* match from i on: the group runs to the next quote and needs one character
\* after the scheme
RECURSIVE hrefMatches(_, _)
hrefMatches(text, i) ==
  IF i > Len(text) THEN <<>>
  ELSE LET j == FirstAt(text, i + 3, {QUOTE})
       IN  IF /\ i + 3 <= Len(text)
              /\ text[i] = HREF
              /\ text[i + 1] = QUOTE
              /\ text[i + 2] = SCHEME
              /\ j > i + 3
           THEN <<SubSeq(text, i + 2, j - 1)>> \o hrefMatches(text, j + 1)
           ELSE hrefMatches(text, i + 1)

\* the characters [^\s<>"'] excludes, by token
LooseStop == Whitespace \cup {LOC, LOCEND, QUOTE}

\* scanContent.match(/https?:\/\/[^\s<>"']+/g) from i on (null read as no match)
RECURSIVE looseMatches(_, _)
looseMatches(text, i) ==
  IF i > Len(text) THEN <<>>
  ELSE LET stop == FirstAt(text, i + 1, LooseStop)
           j == IF stop = 0 THEN Len(text) ELSE stop - 1
       IN  IF text[i] = SCHEME /\ j > i
           THEN <<SubSeq(text, i, j)>> \o looseMatches(text, j + 1)
           ELSE looseMatches(text, i + 1)

\* String.prototype.trim
RECURSIVE trimStart(_)
trimStart(u) ==
  IF u # <<>> /\ Head(u) \in Whitespace THEN trimStart(Tail(u)) ELSE u

RECURSIVE trimEnd(_)
trimEnd(u) ==
  IF u # <<>> /\ u[Len(u)] \in Whitespace THEN trimEnd(SubSeq(u, 1, Len(u) - 1)) ELSE u

trim(u) == trimEnd(trimStart(u))

\* String.prototype.toLowerCase
toLowerCase(u) == [i \in DOMAIN u |-> IF u[i] = "B" THEN "b" ELSE u[i]]

\* String.prototype.includes
includes(u, k) == \E i \in 0..(Len(u) - Len(k)) : SubSeq(u, i + 1, i + Len(k)) = k

\* String.prototype.split
RECURSIVE split(_, _)
split(u, sep) ==
  LET j == FirstAt(u, 1, {sep})
  IN  IF j = 0 THEN <<u>>
      ELSE <<SubSeq(u, 1, j - 1)>> \o split(SubSeq(u, j + 1, Len(u)), sep)

\* [...new Set(xs)]: the distinct values in the order of their first occurrence
RECURSIVE unique(_)
unique(xs) ==
  IF xs = <<>> THEN <<>>
  ELSE <<Head(xs)>> \o unique(SelectSeq(Tail(xs), LAMBDA x : x # Head(xs)))

\* the tiers merged instead of tried in turn
candidatesMerged(text) ==
  locMatches(text, 1) \o hrefMatches(text, 1) \o looseMatches(text, 1)

\* extracted before the filter: strategies 1 to 3
candidates(text) ==
  LET locs == locMatches(text, 1)
      extracted == IF Len(locs) > 0 THEN locs ELSE hrefMatches(text, 1)
  IN  IF Len(extracted) = 0 THEN looseMatches(text, 1) ELSE extracted

\* scanFilter.split(',').map(k => k.trim().toLowerCase())
keywords(filter) ==
  LET segments == split(filter, COMMA)
  IN  [i \in DOMAIN segments |-> toLowerCase(trim(segments[i]))]

\* extracted after the filter
applyFilter(extracted, filter) ==
  IF trim(filter) # <<>>
  THEN SelectSeq(extracted,
                 LAMBDA url : \E i \in DOMAIN keywords(filter) :
                                includes(toLowerCase(url), keywords(filter)[i]))
  ELSE extracted

\* [...new Set(extracted)].map(u => u.trim()).filter(u => u.length > 0)
uniqueUrls(extracted) ==
  LET distinct == unique(extracted)
  IN  SelectSeq([i \in DOMAIN distinct |-> trim(distinct[i])], LAMBDA u : Len(u) > 0)

\* the Extract button
handleScanExtract ==
  /\ trim(scanContent) # <<>>
  /\ LET extracted == candidates(scanContent)
         filtered == applyFilter(extracted, scanFilter)
         urls == uniqueUrls(filtered)
     IN  /\ \E newIds \in [1..Len(urls) -> Ids] : items' = addUrls(items, urls, newIds)
         /\ scanStatus' = Some(Len(urls))
         /\ call' = Some([fn |-> "handleScanExtract", prev |-> items,
                          scanContent |-> scanContent, scanFilter |-> scanFilter,
                          extracted |-> extracted, filtered |-> filtered, urls |-> urls])
  /\ scanContent' = <<>>
  /\ inputMode' = "paste"
  /\ alert' = NoAlert
  /\ analysisResult' = Undefined
  /\ UNCHANGED <<isProcessing, serviceAccount, selectedIds, ops, scanFilter, upload>>

\* Texts to extract from: every run of up to MaxPieces pieces, a piece being
\* one token or a well-formed <loc> element, href attribute or bare url.
Bodies == SeqsUpTo(Letters \cup {SPACE}, MaxBody)

Pieces ==
  { <<t>> : t \in Tokens }
    \cup { <<LOC>> \o b \o <<LOCEND>> : b \in Bodies }
    \cup { <<HREF, QUOTE, SCHEME>> \o b \o <<QUOTE>> : b \in Bodies }
    \cup { <<SCHEME>> \o b : b \in Bodies }

RECURSIVE Concat(_)
Concat(ps) == IF ps = <<>> THEN <<>> ELSE Head(ps) \o Concat(Tail(ps))

Texts == { Concat(ps) : ps \in SeqsUpTo(Pieces, MaxPieces) }

Filters == SeqsUpTo(FilterTokens, MaxFilter)

ExtractInit ==
  /\ items = <<>>
  /\ isProcessing = FALSE
  /\ serviceAccount = FALSE
  /\ selectedIds = {}
  /\ ops = EmptyBag
  /\ alert = NoAlert
  /\ analysisResult = Undefined
  /\ call = Undefined
  /\ inputMode = "scan"
  /\ scanContent \in Texts
  /\ scanFilter \in Filters
  /\ scanStatus = Undefined
  /\ UploadIdle

ExtractNext == handleScanExtract

ExtractSpec == ExtractInit /\ [][ExtractNext]_vars

----------------------------------------------------------------------------
\* The key upload box (ServiceAccountUpload) and the credential of App

MaxReads == 1   \* FileReaders reading at the same time

\* setError texts
NotJsonFileError == "Please upload a valid JSON file."
InvalidKeyError == "Invalid JSON structure. Ensure this is a valid Google Service Account Key."

\* The values a field of the parsed document is drawn from, as JavaScript
\* reads them: a missing field, null, '', a non-empty string, 0 and 1.
JSUndefined == "undefined"
JSNull == "null"
EmptyString == "''"
NonEmptyString == "'x'"
Zero == "0"
One == "1"

FieldValues == {JSUndefined, JSNull, EmptyString, NonEmptyString, Zero, One}

\* !v is false
truthy(v) == v \notin {JSUndefined, JSNull, EmptyString, Zero}

\* The texts of a file by what JSON.parse makes of them: a SyntaxError, null,
\* a number, or an object with some of the three fields.
Documents ==
  [kind : {"invalid", "null", "number"},
   project_id : {JSUndefined}, private_key : {JSUndefined}, client_email : {JSUndefined}]
    \cup [kind : {"object"},
          project_id : FieldValues, private_key : FieldValues, client_email : FieldValues]

Files == [name : {"key.json"}, type : {"application/json", "text/plain"}, text : Documents]

\* JSON.parse(e.target?.result as string) throws
parseThrows(text) == text.kind = "invalid"

\* the test of line 24 with only the first field
passesFieldCheckProjectOnly(json) ==
  /\ json.kind # "null"
  /\ truthy(json.project_id)

\* the statements of the try block up to setFileName do not throw: reading a
\* property of null is a TypeError, a falsy field throws the Error of line 25
passesFieldCheck(json) ==
  /\ json.kind # "null"
  /\ ~(~truthy(json.project_id) \/ ~truthy(json.private_key) \/ ~truthy(json.client_email))

\* processFile(file) up to reader.readAsText(file)
processFile ==
  \E file \in Files :
    /\ IF file.type # "application/json"
       THEN /\ error' = NotJsonFileError
            /\ UNCHANGED reading
       ELSE /\ BagCardinality(reading) < MaxReads
            /\ reading' = reading (+) SetToBag({file})
            /\ UNCHANGED error
    /\ UNCHANGED <<items, isProcessing, serviceAccount, selectedIds, ops, alert,
                   analysisResult, call, scanner, fileName>>

\* reader.onload; onUpload is setServiceAccount
onload ==
  \E file \in BagToSet(reading) :
    /\ reading' = reading (-) SetToBag({file})
    /\ IF ~parseThrows(file.text) /\ passesFieldCheck(file.text)
       THEN /\ fileName' = Some(file.name)
            /\ error' = Undefined
            /\ serviceAccount' = TRUE
       ELSE /\ error' = InvalidKeyError
            /\ UNCHANGED <<fileName, serviceAccount>>
    /\ UNCHANGED <<items, isProcessing, selectedIds, ops, alert, analysisResult, call, scanner>>

UploadNext ==
  \/ processFile
  \/ onload

UploadSpec == Init /\ [][UploadNext]_vars

----------------------------------------------------------------------------
\* Reading a step: which continuation ran, seen from the calls in flight

Terminal == {SUCCESS, FAILED}

Range(f) == { f[i] : i \in DOMAIN f }

\* a call was suspended by this step (an operation started)
OpStarted == BagCardinality(ops') > BagCardinality(ops)

SubmitStarted ==
  \E op \in BagToSet(ops') : op.kind = "submit" /\ CopiesIn(op, ops') > CopiesIn(op, ops)
                             /\ OpStarted

\* the continuation of the analysis `op` ran (the call resolved or threw)
AnalysisEnded(op) ==
  /\ op \in BagToSet(ops)
  /\ op.kind = "analysis"
  /\ ops' = Resume(op)

\* the loop of the submission `op` committed the item at op.idx
Committed(op) ==
  /\ op \in BagToSet(ops)
  /\ op.kind = "submit"
  /\ \/ ops' = Resume(op)
     \/ ops' = Resume(op) (+) SetToBag({[op EXCEPT !.idx = op.idx + 1]})

\* the submission `op` returned in this step
Finished(op) ==
  /\ op \in BagToSet(ops)
  /\ op.kind = "submit"
  /\ ops' = Resume(op)

\* the queue keeps its rows in this step (every status change is such a step)
SameRows == Len(items') = Len(items)

----------------------------------------------------------------------------
\* C1 (as claimed): while isProcessing is true no analysis or submission
\* starts, from the global buttons or from the batch header.
C1_NoStartWhileProcessing == [][isProcessing => ~OpStarted]_vars

\* C2 (as claimed): every change of an item's status is one of the six
\* transitions of the pipeline.
SixTransitions ==
  { <<PENDING, ANALYZING>>, <<ANALYZING, READY>>, <<ANALYZING, PENDING>>,
    <<READY, SUBMITTING>>, <<SUBMITTING, SUCCESS>>, <<SUBMITTING, FAILED>> }

DistinctTargets(op) ==
  \A j, k \in DOMAIN op.targets : j # k => op.targets[j] # op.targets[k]

C3_CommitsInTargetOrder ==
  [][\A op \in BagToSet(ops) :
       (Committed(op) /\ DistinctTargets(op)) =>
         \A j \in DOMAIN op.targets : \A i \in DOMAIN items' :
           items'[i].id = op.targets[j] =>
             IF j <= op.idx THEN items'[i].status \in Terminal
                            ELSE items'[i].status = SUBMITTING]_vars

\* C4 (as claimed): every selected id is the id of an item in the queue.
C4_NoDanglingSelection == selectedIds \subseteq IdsOf(items)

\* C5: submitToGoogle without a credential raises the alert and changes no
\* item, not the queue, not isProcessing, and suspends no call; and no
\* submission starts while there is no credential.
C5_NoKeyNoChange ==
  [][/\ alert' = MissingKeyAlert =>
          /\ ~serviceAccount
          /\ items' = items
          /\ isProcessing' = isProcessing
          /\ ops' = ops
     /\ ~serviceAccount => ~SubmitStarted]_vars

\* the alert over a queue with a READY item that stayed READY
C5_Witness ==
  /\ alert = MissingKeyAlert
  /\ \E i \in DOMAIN items : items[i].status = READY

\* C6: when analyzeUrls resolves, every targeted item whose url has an entry
\* in the response is READY with that entry's score, label and reasoning.
EntriesFor(resp, url) == { e \in Range(resp) : e.url = url }

C6_MatchedItemsReady ==
  [][analysisResult' # Undefined =>
       \E op \in BagToSet(ops) :
         /\ AnalysisEnded(op)
         /\ SameRows
         /\ \A i \in DOMAIN items :
              (items[i].id \in op.ids /\ EntriesFor(analysisResult'[1], items[i].url) # {}) =>
                \E e \in EntriesFor(analysisResult'[1], items[i].url) :
                  /\ items'[i].status = READY
                  /\ items'[i].qualityScore = Some(e.qualityScore)
                  /\ items'[i].qualityLabel = Some(e.qualityLabel)
                  /\ items'[i].analysis = Some(e.reasoning)
                  /\ items'[i].id = items[i].id
                  /\ items'[i].url = items[i].url]_vars

\* a response with entries for two URLs, and both items READY with their own
C6_Witness ==
  /\ analysisResult # Undefined
  /\ Len(analysisResult[1]) = 2
  /\ Len(items) = 2
  /\ items[1].status = READY /\ items[2].status = READY
  /\ items[1].url # items[2].url
  /\ items[1].qualityScore # items[2].qualityScore

\* C7: when analyzeUrls throws, every targeted item still ANALYZING is PENDING
\* again with its other fields as they were, and nothing else changes.
C7_FailureReverts ==
  [][alert' = AnalysisFailedAlert =>
       \E op \in BagToSet(ops) :
         /\ AnalysisEnded(op)
         /\ SameRows
         /\ \A i \in DOMAIN items :
              items'[i] = IF items[i].id \in op.ids /\ items[i].status = ANALYZING
                            THEN [items[i] EXCEPT !.status = PENDING]
                            ELSE items[i]]_vars

\* the failure alert over two items back in PENDING with no score set
C7_Witness ==
  /\ alert = AnalysisFailedAlert
  /\ Len(items) = 2
  /\ \A i \in DOMAIN items :
       items[i].status = PENDING /\ items[i].qualityScore = Undefined

\* C8: a targeted item whose url has no entry in a successful response is left
\* as it was (an ANALYZING item stays ANALYZING), and the global analyze
\* takes PENDING items only: its processingIds are the ids of the items that
\* were PENDING, and an item that was ANALYZING is not touched by its start.
GlobalAnalyzeStarted ==
  /\ OpStarted
  /\ selectedIds' = selectedIds
  /\ \E op \in BagToSet(ops') : op.kind = "analysis" /\ CopiesIn(op, ops') > CopiesIn(op, ops)

C9_AllTerminalAtReturn ==
  [][\A op \in BagToSet(ops) :
       Finished(op) =>
         \A i \in DOMAIN items' :
           items'[i].id \in Range(op.targets) => items'[i].status \in Terminal]_vars

\* C10: a FAILED commit does not end the loop: after the commit of the item
\* at idx the submission is in flight at idx + 1 unless idx was the last
\* target, whatever the outcome was, and the committed item is SUCCESS or
\* FAILED by its own outcome.
C10_FailureDoesNotAbort ==
  [][\A op \in BagToSet(ops) :
       Committed(op) =>
         /\ \A i \in DOMAIN items' :
              items'[i].id = op.targets[op.idx] => items'[i].status \in Terminal
         /\ IF op.idx < Len(op.targets)
              THEN ops' = Resume(op) (+) SetToBag({[op EXCEPT !.idx = op.idx + 1]})
              ELSE ops' = Resume(op) /\ ~isProcessing']_vars

\* a global submission returned with its first target FAILED and its second
\* SUCCESS
C10_Witness ==
  /\ alert = SubmissionCompleteAlert
  /\ Len(items) = 2
  /\ items[1].status = FAILED
  /\ items[2].status = SUCCESS

\* C11 (as claimed): isProcessing is true in every state in which an analysis
\* call is outstanding (suspended at its await), whatever else has run.
C11_FlagWhileAnalysisOutstanding == InFlight("analysis") > 0 => isProcessing

\* C12 (as claimed): no two items of the queue have the same id.
C12_IdsUnique ==
  \A i, j \in DOMAIN items : i # j => items[i].id # items[j].id

\* C13: qualityScore and qualityLabel are written only by the success path of
\* an analysis: a step that changes the score or label of a queued item is
\* the resolve step of an analysis whose processingIds hold the item's id,
\* with an entry for the item's url, and writes that entry's score and label;
\* a step that adds or removes rows brings no scored item that was not in the
\* queue with the same fields; and every score in the queue belongs, with its
\* label, to an entry for the item's url.
Scored(item) == item.qualityScore # Undefined \/ item.qualityLabel # Undefined

C13_ScoreOnlyFromAnalysis ==
  [][/\ SameRows =>
          \A i \in DOMAIN items :
            (\/ items'[i].qualityScore # items[i].qualityScore
             \/ items'[i].qualityLabel # items[i].qualityLabel) =>
              /\ analysisResult' # Undefined
              /\ \E op \in BagToSet(ops) : AnalysisEnded(op) /\ items[i].id \in op.ids
              /\ \E e \in EntriesFor(analysisResult'[1], items[i].url) :
                   /\ items'[i].qualityScore = Some(e.qualityScore)
                   /\ items'[i].qualityLabel = Some(e.qualityLabel)
     /\ ~SameRows =>
          \A i \in DOMAIN items' : Scored(items'[i]) => items'[i] \in Range(items)
     /\ \A i \in DOMAIN items' :
          Scored(items'[i]) =>
            \E e \in Entries :
              /\ e.url = items'[i].url
              /\ items'[i].qualityScore = Some(e.qualityScore)
              /\ items'[i].qualityLabel = Some(e.qualityLabel)]_vars

\* two submitted items: the analysed one still has its score, the one that
\* was submitted without an analysis has none
C13_Witness ==
  /\ Len(items) = 2
  /\ items[1].status = SUCCESS /\ items[1].qualityScore # Undefined
  /\ items[2].status = FAILED /\ ~Scored(items[2])

\* C14: the commit of a submitted item changes the items with the committed
\* id only, and on them either the status alone (to SUCCESS: note, score and
\* label as they were) or the status and the note (to FAILED, the note
\* overwritten with the error string: score and label as they were).
C14_CommitFrame ==
  [][\A op \in BagToSet(ops) :
       Committed(op) =>
         /\ SameRows
         /\ \A i \in DOMAIN items :
              IF items[i].id = op.targets[op.idx]
                THEN \/ items'[i] = [items[i] EXCEPT !.status = SUCCESS]
                     \/ items'[i] = [items[i] EXCEPT !.status = FAILED,
                                                     !.analysis = Some(SubmitErrorNote)]
                ELSE items'[i] = items[i]]_vars

\* two analysed items after their submission: the failed one has the error
\* string as its note and still its score, the other its note of the analysis
C14_Witness ==
  /\ Len(items) = 2
  /\ ops = EmptyBag
  /\ items[1].status = FAILED
  /\ items[1].analysis = Some(SubmitErrorNote)
  /\ items[1].qualityScore # Undefined /\ items[1].qualityLabel # Undefined
  /\ items[2].status = SUCCESS
  /\ items[2].analysis \notin {Undefined, Some(SubmitErrorNote)}
  /\ items[2].qualityScore # Undefined

\* C15: the step that issues the analysis call resolves its targets from the
\* queue as it is: the batch action (which empties the selection) to the
\* items whose id was selected, in any status, the global action to the items
\* that were PENDING; processingIds are the ids of those items, and when the
\* call is suspended every item with such an id is ANALYZING, with its other
\* fields as they were, and no other item has changed.
AnalysisIssued(op) == op.kind = "analysis" /\ ops' = Suspend(op)

ResolvedTargets ==
  IF selectedIds' # selectedIds
    THEN { i \in DOMAIN items : items[i].id \in selectedIds }
    ELSE { i \in DOMAIN items : items[i].status = PENDING }

EmptyResolution ==
  /\ selectedIds # {}
  /\ selectedIds \cap IdsOf(items) = {}
  /\ serviceAccount

C16_EmptyTargetsNoOp ==
  [][/\ (EmptyResolution /\ selectedIds' = {}) =>
          /\ items' = items
          /\ isProcessing' = isProcessing
          /\ ops' = ops
     /\ \A op \in BagToSet(ops') :
          /\ op.ids # {}
          /\ op.kind = "submit" => Len(op.targets) > 0]_vars

\* the batch header over a selection that resolves to no queued item, with a
\* key present, rows in the queue and an analysis in flight whose flag and
\* items an empty batch call must not touch
C16_Witness ==
  /\ EmptyResolution
  /\ Len(items) > 0
  /\ isProcessing
  /\ InFlight("analysis") = 1
  /\ \E i \in DOMAIN items : items[i].status = ANALYZING

----------------------------------------------------------------------------
\* Queue-store claims, checked under StoreSpec

\* the store call of this step is fn
Called(fn) == call' # Undefined /\ call'[1].fn = fn /\ call'[1].prev = items

\* result is prev restricted to the positions in K, in the order of prev
Restriction(result, prev, K) ==
  /\ Len(result) = Cardinality(K)
  /\ \A i \in K : result[Cardinality({ j \in K : j <= i })] = prev[i]

\* C17: addUrls(urls) leaves the items of the queue where they were and puts
\* after them one new item per input url, in input order, duplicates of
\* queued urls included: PENDING, URL_UPDATED, with no score, label or note.
C17_AddAppends ==
  [][Called("addUrls") =>
       LET urls == call'[1].urls
       IN  /\ Len(items') = Len(items) + Len(urls)
           /\ \A i \in DOMAIN items : items'[i] = items[i]
           /\ \A j \in DOMAIN urls :
                LET n == items'[Len(items) + j]
                IN  /\ n.url = urls[j]
                    /\ n.status = PENDING
                    /\ n.requestType = "URL_UPDATED"
                    /\ n.qualityScore = Undefined
                    /\ n.qualityLabel = Undefined
                    /\ n.analysis = Undefined]_vars

\* two urls added after an analysed item, the first of them the url that item
\* already has
C17_Witness ==
  /\ call # Undefined
  /\ call[1].fn = "addUrls"
  /\ Len(call[1].prev) = 1
  /\ call[1].prev[1].status = READY
  /\ call[1].urls = <<call[1].prev[1].url, "u1">>
  /\ Len(items) = 3
  /\ items[1] = call[1].prev[1]
  /\ items[2].url = items[1].url
  /\ items[3].url = "u1"

\* C18: clearFailedUrls leaves exactly the items whose status is not FAILED,
\* each with all its fields, in the order they had.
C18_ClearFailedExact ==
  [][Called("clearFailedUrls") =>
       Restriction(items', items,
                   { i \in DOMAIN items : items[i].status # FAILED })]_vars

\* a FAILED item between a PENDING and a READY item was cleared
C18_Witness ==
  /\ call # Undefined
  /\ call[1].fn = "clearFailedUrls"
  /\ Len(call[1].prev) = 3
  /\ call[1].prev[1].status = PENDING
  /\ call[1].prev[2].status = FAILED
  /\ call[1].prev[3].status = READY
  /\ items = <<call[1].prev[1], call[1].prev[3]>>

\* C19: deleteUrl(id) and deleteBatch(ids) leave exactly the items whose id is
\* not among the ids given, each with all its fields, in the order they had;
\* with no given id in the queue the queue is as it was.
C19_DeleteExact ==
  [][(Called("deleteUrl") \/ Called("deleteBatch")) =>
       LET ids == call'[1].ids
       IN  /\ Restriction(items', items,
                          { i \in DOMAIN items : items[i].id \notin ids })
           /\ ids \cap IdsOf(items) = {} => items' = items]_vars

\* deleteBatch with the id of the middle item of three and an id that is not
\* in the queue
C19_Witness ==
  /\ call # Undefined
  /\ call[1].fn = "deleteBatch"
  /\ Len(call[1].prev) = 3
  /\ Cardinality(IdsOf(call[1].prev)) = 3
  /\ Cardinality(call[1].ids) = 2
  /\ call[1].prev[2].id \in call[1].ids
  /\ ~(call[1].ids \subseteq IdsOf(call[1].prev))
  /\ items = <<call[1].prev[1], call[1].prev[3]>>

----------------------------------------------------------------------------
\* C20 (as claimed): in every reachable state in which the header checkbox is
\* rendered, handleSelectAll clears the selection if every item of the queue
\* is selected and otherwise selects exactly the ids of all items.
C20_SelectAllTogglesAll ==
  Len(items) > 0 =>
    handleSelectAll(selectedIds, items) =
      IF IdsOf(items) \subseteq selectedIds THEN {} ELSE IdsOf(items)

----------------------------------------------------------------------------
\* C30: in every state in which no submitToGoogle call is in flight, no item
\* of the queue has status SUBMITTING.
C30_SubmittingIsTransient ==
  InFlight("submit") = 0 =>
    \A i \in DOMAIN items : items[i].status # SUBMITTING

\* a submission has returned (one item FAILED with the error string) while an
\* analysis that overlapped it is still in flight over another item
C30_Witness ==
  /\ InFlight("submit") = 0
  /\ InFlight("analysis") = 1
  /\ \E i \in DOMAIN items :
       items[i].status = FAILED /\ items[i].analysis = Some(SubmitErrorNote)
  /\ \E i \in DOMAIN items : items[i].status = ANALYZING

----------------------------------------------------------------------------
\* C21 (as claimed): no failure is silent. When the continuation of an
\* analysis runs, every targeted item the call did not succeed for (the call
\* threw, or the response has no entry for the item's url) is changed by the
\* step or the step raises an alert, and a call that threw raises the one
\* analysis alert; when a commit does not end in SUCCESS, the committed item
\* is FAILED with the error string after the step or the step raises an
\* alert. (The missing credential is the alert of submitWithoutKey.)
AnalysisThrew == analysisResult' = Undefined

NoEntryFor(i) ==
  analysisResult' # Undefined /\ EntriesFor(analysisResult'[1], items[i].url) = {}

C21_FailuresObservable ==
  [][/\ \A op \in BagToSet(ops) :
          AnalysisEnded(op) =>
            /\ AnalysisThrew => alert' = AnalysisFailedAlert
            /\ \A i \in DOMAIN items :
                 (items[i].id \in op.ids /\ (AnalysisThrew \/ NoEntryFor(i))) =>
                   (items'[i] # items[i] \/ alert' # NoAlert)
     /\ \A op \in BagToSet(ops) :
          Committed(op) =>
            \A i \in DOMAIN items :
              (items[i].id = op.targets[op.idx] /\ items'[i].status # SUCCESS) =>
                \/ /\ items'[i].status = FAILED
                   /\ items'[i].analysis = Some(SubmitErrorNote)
                \/ alert' # NoAlert]_vars

----------------------------------------------------------------------------
\* C26: an operation changes only items whose id is in its target set. The
\* step that starts an operation, the continuation of an analysis and every
\* commit of a submission leave each item whose id is not among the
\* operation's processingIds exactly as it was, whatever its url and whenever
\* it was added.
Untouched(op) ==
  /\ SameRows
  /\ \A i \in DOMAIN items : items[i].id \notin op.ids => items'[i] = items[i]

C26_OnlyTargetsChange ==
  [][/\ \A op \in BagToSet(ops) : (AnalysisEnded(op) \/ Committed(op)) => Untouched(op)
     /\ \A op \in BagToSet(ops') : (OpStarted /\ ops' = Suspend(op)) => Untouched(op)]_vars

\* a response with an entry for the url two items share: the targeted one is
\* READY, the other one, whose id the call did not hold, is still a new item
C26_Witness ==
  /\ analysisResult # Undefined
  /\ Len(items) = 2
  /\ items[1].url = items[2].url
  /\ items[1].id # items[2].id
  /\ EntriesFor(analysisResult[1], items[1].url) # {}
  /\ items[1].status = READY
  /\ items[2] = NewItem(items[2].id, items[2].url)

\* C27 (as claimed): the continuation of an analysis, after a response as
\* after a throw, changes only targeted items that are still ANALYZING.
C27_LateResponseKeepsStatus ==
  [][\A op \in BagToSet(ops) :
       AnalysisEnded(op) =>
         /\ SameRows
         /\ \A i \in DOMAIN items :
              items'[i] # items[i] =>
                (items[i].id \in op.ids /\ items[i].status = ANALYZING)]_vars

\* C28 (as claimed): once the id of a target of an operation in flight is no
\* longer in the queue (its item was deleted), no step puts an item with that
\* id into the queue.
C28_DeletedStaysDeleted ==
  [][\A op \in BagToSet(ops) :
       \A id \in op.ids :
         id \notin IdsOf(items) => id \notin IdsOf(items')]_vars

----------------------------------------------------------------------------
\* C29: under LiveSpec the flag is released after every start: whenever
\* isProcessing is true, which only the start of an analysis or of a
\* submission makes it, it is false again later, on the success path and on
\* the failure path alike.
C29_GateReleased == isProcessing ~> ~isProcessing

\* the flag is down and nothing is in flight right after the catch path of an
\* analysis that reverted its target
C29_Witness ==
  /\ alert = AnalysisFailedAlert
  /\ ~isProcessing
  /\ ops = EmptyBag
  /\ \E i \in DOMAIN items : items[i].status = PENDING

----------------------------------------------------------------------------
\* Claims about the extractor, read off the record of the call

Scanned == call # Undefined /\ call[1].fn = "handleScanExtract"

\* C22: the tiers are exclusive and tried in priority order: with a <loc>
\* match the candidates are exactly the <loc> contents; without one and with
\* an href match they are exactly the href values; without either they are
\* the loose tokens, none when nothing matches. Tiers are never merged.
C22_TiersExclusive ==
  Scanned =>
    LET locs == locMatches(call[1].scanContent, 1)
        hrefs == hrefMatches(call[1].scanContent, 1)
        loose == looseMatches(call[1].scanContent, 1)
    IN  /\ locs # <<>> => call[1].extracted = locs
        /\ (locs = <<>> /\ hrefs # <<>>) => call[1].extracted = hrefs
        /\ (locs = <<>> /\ hrefs = <<>>) => call[1].extracted = loose

\* a text with a <loc> element and an href attribute, which the loose pattern
\* matches as well, gave the <loc> contents alone
C22_Witness ==
  /\ Scanned
  /\ locMatches(call[1].scanContent, 1) # <<>>
  /\ hrefMatches(call[1].scanContent, 1) # <<>>
  /\ looseMatches(call[1].scanContent, 1) # <<>>
  /\ call[1].extracted = locMatches(call[1].scanContent, 1)
  /\ call[1].urls # <<>>

\* C23 (as claimed): the urls handed to onAdd hold no two equal strings, no
\* string with leading or trailing whitespace and no empty string, in the
\* order in which the filtered candidates first show them.
C23_CleanOutput ==
  Scanned =>
    LET urls == call[1].urls
        trimmed == [i \in DOMAIN call[1].filtered |-> trim(call[1].filtered[i])]
    IN  /\ \A i, j \in DOMAIN urls : i # j => urls[i] # urls[j]
        /\ \A i \in DOMAIN urls : trim(urls[i]) = urls[i] /\ urls[i] # <<>>
        /\ urls = unique(SelectSeq(trimmed, LAMBDA u : u # <<>>))

\* C24 (as claimed): with a non-empty filter the extractor keeps exactly the
\* candidates whose lowercased form contains one of the keywords, a keyword
\* being a non-empty trimmed lowercased segment of the filter; with an empty
\* filter it keeps every candidate.
C24_FilterExact ==
  Scanned =>
    LET segments == split(call[1].scanFilter, COMMA)
        kws == { toLowerCase(trim(segments[i])) : i \in DOMAIN segments } \ {<<>>}
    IN  IF trim(call[1].scanFilter) # <<>>
        THEN call[1].filtered =
               SelectSeq(call[1].extracted,
                         LAMBDA url : \E k \in kws : includes(toLowerCase(url), k))
        ELSE call[1].filtered = call[1].extracted

----------------------------------------------------------------------------
\* the document parses and has the three fields present and non-empty
WellFormedKey(text) ==
  /\ text.kind = "object"
  /\ \A v \in {text.project_id, text.private_key, text.client_email} :
       v \notin {JSUndefined, JSNull, EmptyString}

\* the step is the onload of file
Loaded(file) == file \in BagToSet(reading) /\ reading' = reading (-) SetToBag({file})

\* C25: the credential of App is set only by the load of a document that
\* parses as JSON and has non-empty project_id, private_key and client_email;
\* the load of any other document sets the upload box's error and leaves the
\* credential as it is, and so does an upload that is refused before it is read.
C25_OnlyValidKeysReachCore ==
  [][/\ serviceAccount' # serviceAccount =>
          \E file \in Files : Loaded(file) /\ WellFormedKey(file.text)
     /\ \A file \in Files : (Loaded(file) /\ ~WellFormedKey(file.text)) =>
          /\ error' = InvalidKeyError
          /\ serviceAccount' = serviceAccount
     /\ reading' = reading =>
          /\ error' = NotJsonFileError
          /\ serviceAccount' = serviceAccount]_vars

\* a well-formed key was loaded after a refused one, and a document without a
\* private key was then turned down with the key kept
C25_Witness ==
  /\ serviceAccount = TRUE
  /\ fileName # Undefined
  /\ error = InvalidKeyError
  /\ reading = EmptyBag

====
